---- MODULE Spec2Model ----
(***************************************************************************)
(* Model of src/main.py, the anagram finder.                               *)
(*                                                                         *)
(* A string is a sequence of code points (naturals); a List[str] is a      *)
(* sequence of strings; a Dict[str, List[str]] is a sequence of records    *)
(* [standard_form, anagram_list] with distinct keys, in insertion order,   *)
(* as a Python dict keeps them.  A call's outcome is a record [exc, val]:  *)
(* exc is "none" when the call returned val, the exception's name when it  *)
(* raised, and "unset" while the call has not been made.                   *)
(*                                                                         *)
(* Time is counted in days.  The cache file words.txt is a record          *)
(* [exists, text, mtime]; its text is the decoded content (all characters  *)
(* used are ASCII, where UTF-8 bytes and code points coincide).            *)
(***************************************************************************)
EXTENDS Naturals, Sequences, FiniteSets

\* ---- bounds of the model ----
MaxWords == 3
MaxWordLen == 2
MaxBodyLen == 3
MaxNow == 9
MaxMtime == 1
MaxMinCount == 3

\* ---- program constants ----
MaxDaysOld == 7
LF == 10
CR == 13

\* characters str.strip() removes (str.isspace, code points below 256)
Whitespace == {9, 10, 11, 12, 13, 28, 29, 30, 31, 32, 133, 160}

\* letters of the word lists: "A", "a"
Letters == {65, 97}

\* characters of a response body: "a", "b", space, "\r", "\n"
BodyChars == {97, 98, 32, CR, LF}

RECURSIVE SeqsUpTo(_, _)
SeqsUpTo(S, n) ==
  IF n = 0 THEN {<<>>}
  ELSE LET shorter == SeqsUpTo(S, n - 1)
       IN shorter \cup {Append(s, x) : s \in shorter, x \in S}

Words == SeqsUpTo(Letters, MaxWordLen)
WordLists == SeqsUpTo(Words, MaxWords)
Bodies == SeqsUpTo(BodyChars, MaxBodyLen)

\* ---- str and file primitives ----
RECURSIVE lstrip(_)
lstrip(s) ==
  IF s = <<>> \/ Head(s) \notin Whitespace THEN s ELSE lstrip(Tail(s))

RECURSIVE rstrip(_)
rstrip(s) ==
  IF s = <<>> \/ s[Len(s)] \notin Whitespace THEN s
  ELSE rstrip(SubSeq(s, 1, Len(s) - 1))

strip(s) == rstrip(lstrip(s))

\* text.split("\n"): always at least one piece
RECURSIVE split_lf(_)
split_lf(s) ==
  IF s = <<>> THEN << <<>> >>
  ELSE LET rest == split_lf(Tail(s))
       IN IF Head(s) = LF THEN << <<>> >> \o rest
          ELSE << <<Head(s)>> \o Head(rest) >> \o Tail(rest)

\* file.writelines(lines) on a file opened with newline=None on Linux
RECURSIVE writelines(_)
writelines(lines) ==
  IF lines = <<>> THEN <<>> ELSE Head(lines) \o writelines(Tail(lines))

\* file.readlines() on a file opened "r" with newline=None (universal
\* newlines): "\n", "\r" and "\r\n" each end a line and are read as "\n"
RECURSIVE readlines(_)
readlines(s) ==
  IF s = <<>> THEN <<>>
  ELSE IF Head(s) = LF THEN << <<LF>> >> \o readlines(Tail(s))
  ELSE IF Head(s) = CR
    THEN << <<LF>> >> \o
         readlines(IF Len(s) >= 2 /\ s[2] = LF THEN Tail(Tail(s)) ELSE Tail(s))
  ELSE LET rest == readlines(Tail(s))
       IN IF rest = <<>> THEN << <<Head(s)>> >>
          ELSE << <<Head(s)>> \o Head(rest) >> \o Tail(rest)

\* sorted(word): ascending code points
RECURSIVE insert_sorted(_, _)
insert_sorted(c, s) ==
  IF s = <<>> THEN <<c>>
  ELSE IF c < Head(s) THEN <<c>> \o s
  ELSE <<Head(s)>> \o insert_sorted(c, Tail(s))

RECURSIVE sorted(_)
sorted(s) ==
  IF s = <<>> THEN <<>> ELSE insert_sorted(Head(s), sorted(Tail(s)))

\* "A".."Z" to "a".."z"
lower(s) == [i \in DOMAIN s |-> IF s[i] >= 65 /\ s[i] <= 90 THEN s[i] + 32 ELSE s[i]]

Returned(v) == [exc |-> "none", val |-> v]
Raised(e) == [exc |-> e, val |-> <<>>]
Unset == [exc |-> "unset", val |-> <<>>]

Max(S) == CHOOSE m \in S : \A x \in S : x <= m

\* ---- the functions of main.py ----

\* the spec's reading of the freshness test: a file exactly max_days_old
\* days old still counts as fresh
check_if_file_newer_inclusive(file, current_timestamp, max_days_old) ==
  IF ~file.exists THEN FALSE
  ELSE file.mtime + max_days_old >= current_timestamp

check_if_file_newer_than_x_days(file, current_timestamp, max_days_old) ==
  IF ~file.exists THEN FALSE
  ELSE file.mtime + max_days_old > current_timestamp

\* the list get_words_from_uri writes: one stripped piece per line
uri_word_list(words_uri_text) ==
  LET pieces == split_lf(words_uri_text)
  IN [i \in DOMAIN pieces |-> strip(pieces[i]) \o <<LF>>]

\* the list get_words_from_file returns for a file holding text
file_word_list(text) ==
  LET lines == readlines(text)
  IN [i \in DOMAIN lines |-> strip(lines[i])]

\* case-folding variant: sorted(word.lower())
convert_to_standard_form_casefold(word) == sorted(lower(word))

convert_to_standard_form(word) == sorted(word)

key_index(d, k) ==
  IF \E i \in DOMAIN d : d[i].standard_form = k
  THEN CHOOSE i \in DOMAIN d : d[i].standard_form = k
  ELSE 0

\* variant of the loop body that assigns [word] where it should append
add_word_overwrite(d, word) ==
  LET standard_form == convert_to_standard_form(word)
      i == key_index(d, standard_form)
  IN IF i # 0
     THEN [d EXCEPT ![i].anagram_list = <<word>>]
     ELSE Append(d, [standard_form |-> standard_form, anagram_list |-> <<word>>])

\* the body of the loop of find_anagrams
add_word(d, word) ==
  LET standard_form == convert_to_standard_form(word)
      i == key_index(d, standard_form)
  IN IF i # 0
     THEN [d EXCEPT ![i].anagram_list = Append(@, word)]
     ELSE Append(d, [standard_form |-> standard_form, anagram_list |-> <<word>>])

RECURSIVE find_anagrams(_)
find_anagrams(word_list) ==
  IF word_list = <<>> THEN <<>>
  ELSE add_word(find_anagrams(SubSeq(word_list, 1, Len(word_list) - 1)),
                word_list[Len(word_list)])

\* variant with a strict comparison
filter_anagrams_by_number_strict(anagrams, min_count) ==
  LET Keep(g) == Len(g.anagram_list) > min_count
  IN SelectSeq(anagrams, Keep)

filter_anagrams_by_number(anagrams, min_count) ==
  LET Keep(g) == Len(g.anagram_list) >= min_count
  IN SelectSeq(anagrams, Keep)

\* variant that takes the maximum over the groups with more than one member
get_most_anagram_dups_only(anagrams) ==
  LET sizes == {Len(anagrams[i].anagram_list) : i \in
                  {j \in DOMAIN anagrams : Len(anagrams[j].anagram_list) > 1}}
  IN IF sizes = {} THEN Raised("ValueError")
     ELSE LET most_anagrams == Max(sizes)
              Keep(g) == Len(g.anagram_list) = most_anagrams
          IN Returned(SelectSeq(anagrams, Keep))

\* max() of an empty sequence raises ValueError
get_most_anagram(anagrams) ==
  LET sizes == {Len(anagrams[i].anagram_list) : i \in DOMAIN anagrams}
  IN IF sizes = {} THEN Raised("ValueError")
     ELSE LET most_anagrams == Max(sizes)
              Keep(g) == Len(g.anagram_list) = most_anagrams
          IN Returned(SelectSeq(anagrams, Keep))

\* variant whose max() has default=0: no failure, an empty result
get_longest_anagram_default(anagrams) ==
  LET lengths == {Len(anagrams[i].standard_form) : i \in
                    {j \in DOMAIN anagrams : Len(anagrams[j].anagram_list) > 1}}
      longest_word_length == IF lengths = {} THEN 0 ELSE Max(lengths)
      Keep(g) == Len(g.standard_form) = longest_word_length
                 /\ Len(g.anagram_list) > 1
  IN Returned(SelectSeq(anagrams, Keep))

\* variant whose final filter forgets the size test
get_longest_anagram_any_size(anagrams) ==
  LET lengths == {Len(anagrams[i].standard_form) : i \in
                    {j \in DOMAIN anagrams : Len(anagrams[j].anagram_list) > 1}}
  IN IF lengths = {} THEN Raised("ValueError")
     ELSE LET longest_word_length == Max(lengths)
              Keep(g) == Len(g.standard_form) = longest_word_length
          IN Returned(SelectSeq(anagrams, Keep))

get_longest_anagram(anagrams) ==
  LET lengths == {Len(anagrams[i].standard_form) : i \in
                    {j \in DOMAIN anagrams : Len(anagrams[j].anagram_list) > 1}}
  IN IF lengths = {} THEN Raised("ValueError")
     ELSE LET longest_word_length == Max(lengths)
              Keep(g) == Len(g.standard_form) = longest_word_length
                         /\ Len(g.anagram_list) > 1
          IN Returned(SelectSeq(anagrams, Keep))

\* the lines one section of the report prints: its title, then a line per group
section(title, groups) ==
  <<[title |-> title, standard_form |-> <<>>, anagram_list |-> <<>>]>> \o
  [i \in DOMAIN groups |->
     [title |-> "", standard_form |-> groups[i].standard_form,
      anagram_list |-> groups[i].anagram_list]]

\* ---- state ----
VARIABLES
  pc,                \* position of the run in main, or of the function calls
  now,               \* datetime.now(), in days
  cache,             \* the file words.txt
  cache0,            \* words.txt as the run found it
  fetched,           \* requests.get was called in this run
  response,          \* what requests.get returned: [status, text]
  exc,               \* the exception that ended the run, "none" if none
  word_list,
  standard_forms,    \* convert_to_standard_form of each word of word_list
  anagrams,
  min_count,
  filtered_anagrams,
  most_anagrams,
  longest_anagrams,
  output             \* the lines printed so far

vars == <<pc, now, cache, cache0, fetched, response, exc, word_list,
          standard_forms, anagrams, min_count, filtered_anagrams,
          most_anagrams, longest_anagrams, output>>

NoFile == [exists |-> FALSE, text |-> <<>>, mtime |-> 0]
NoResponse == [status |-> 0, text |-> <<>>]

\* contents words.txt may have when a run starts: an empty file, and files
\* earlier runs wrote ("a\n", "Aa\naA\n")
CacheTexts == {<<>>, <<97, LF>>, <<65, 97, LF, 97, 65, LF>>}

CacheFiles ==
  {NoFile} \cup
  {[exists |-> TRUE, text |-> t, mtime |-> m] : t \in CacheTexts, m \in 0..MaxMtime}

Blank ==
  /\ fetched = FALSE
  /\ response = NoResponse
  /\ exc = "none"
  /\ standard_forms = <<>>
  /\ anagrams = <<>>
  /\ min_count = 0
  /\ filtered_anagrams = Unset
  /\ most_anagrams = Unset
  /\ longest_anagrams = Unset
  /\ output = <<>>

\* a run of main starts
Init ==
  /\ pc = "check"
  /\ cache \in CacheFiles
  /\ cache0 = cache
  /\ now \in cache.mtime..MaxNow
  /\ word_list = <<>>
  /\ Blank

\* ---- main, one action per statement ----

main_check ==
  /\ pc = "check"
  /\ pc' = IF ~cache.exists
              \/ ~check_if_file_newer_than_x_days(cache, now, MaxDaysOld)
           THEN "fetch" ELSE "read"
  /\ UNCHANGED <<now, cache, cache0, fetched, response, exc, word_list,
                 standard_forms, anagrams, min_count, filtered_anagrams,
                 most_anagrams, longest_anagrams, output>>

\* requests.get raises on a connection failure or a timeout; it returns the
\* response, whatever its status, otherwise.  open(..., "w") may raise.
get_words_from_uri ==
  /\ pc = "fetch"
  /\ fetched' = TRUE
  /\ \/ /\ exc' = "ConnectionError"
        /\ pc' = "error"
        /\ UNCHANGED <<cache, response>>
     \/ \E status \in {200, 404}, text \in Bodies :
          /\ response' = [status |-> status, text |-> text]
          /\ \/ /\ exc' = "OSError"
                /\ pc' = "error"
                /\ UNCHANGED cache
             \/ /\ cache' = [exists |-> TRUE,
                             text |-> writelines(uri_word_list(text)),
                             mtime |-> now]
                /\ pc' = "read"
                /\ UNCHANGED exc
  /\ UNCHANGED <<now, cache0, word_list, standard_forms, anagrams, min_count,
                 filtered_anagrams, most_anagrams, longest_anagrams, output>>

get_words_from_file ==
  /\ pc = "read"
  /\ \/ /\ exc' = "OSError"
        /\ pc' = "error"
        /\ UNCHANGED word_list
     \/ /\ word_list' = file_word_list(cache.text)
        /\ pc' = "find"
        /\ UNCHANGED exc
  /\ UNCHANGED <<now, cache, cache0, fetched, response, standard_forms,
                 anagrams, min_count, filtered_anagrams, most_anagrams,
                 longest_anagrams, output>>

main_find ==
  /\ pc = "find"
  /\ anagrams' = find_anagrams(word_list)
  /\ pc' = "most"
  /\ UNCHANGED <<now, cache, cache0, fetched, response, exc, word_list,
                 standard_forms, min_count, filtered_anagrams, most_anagrams,
                 longest_anagrams, output>>

\* variant of main that prints each section as soon as it is selected
main_most_print_early ==
  /\ pc = "most"
  /\ most_anagrams' = get_most_anagram(anagrams)
  /\ IF most_anagrams'.exc = "none"
     THEN /\ pc' = "longest"
          /\ output' = output \o section("Most anagrams:", most_anagrams'.val)
          /\ UNCHANGED exc
     ELSE /\ pc' = "error"
          /\ exc' = most_anagrams'.exc
          /\ UNCHANGED output
  /\ UNCHANGED <<now, cache, cache0, fetched, response, word_list,
                 standard_forms, anagrams, min_count, filtered_anagrams,
                 longest_anagrams>>

main_most ==
  /\ pc = "most"
  /\ most_anagrams' = get_most_anagram(anagrams)
  /\ IF most_anagrams'.exc = "none"
     THEN pc' = "longest" /\ UNCHANGED exc
     ELSE pc' = "error" /\ exc' = most_anagrams'.exc
  /\ UNCHANGED <<now, cache, cache0, fetched, response, word_list,
                 standard_forms, anagrams, min_count, filtered_anagrams,
                 longest_anagrams, output>>

main_longest ==
  /\ pc = "longest"
  /\ longest_anagrams' = get_longest_anagram(anagrams)
  /\ IF longest_anagrams'.exc = "none"
     THEN pc' = "print_most" /\ UNCHANGED exc
     ELSE pc' = "error" /\ exc' = longest_anagrams'.exc
  /\ UNCHANGED <<now, cache, cache0, fetched, response, word_list,
                 standard_forms, anagrams, min_count, filtered_anagrams,
                 most_anagrams, output>>

main_print_most ==
  /\ pc = "print_most"
  /\ output' = output \o section("Most anagrams:", most_anagrams.val)
  /\ pc' = "print_longest"
  /\ UNCHANGED <<now, cache, cache0, fetched, response, exc, word_list,
                 standard_forms, anagrams, min_count, filtered_anagrams,
                 most_anagrams, longest_anagrams>>

main_print_longest ==
  /\ pc = "print_longest"
  /\ output' = output \o section("Longest anagrams:", longest_anagrams.val)
  /\ pc' = "done"
  /\ UNCHANGED <<now, cache, cache0, fetched, response, exc, word_list,
                 standard_forms, anagrams, min_count, filtered_anagrams,
                 most_anagrams, longest_anagrams>>

Next ==
  \/ main_check
  \/ get_words_from_uri
  \/ get_words_from_file
  \/ main_find
  \/ main_most
  \/ main_longest
  \/ main_print_most
  \/ main_print_longest

Spec == Init /\ [][Next]_vars

\* ---- the functions called one by one on a word list ----

\* the file that holds word_list, one word per line
words_file(words) ==
  [exists |-> TRUE,
   text |-> writelines([i \in DOMAIN words |-> words[i] \o <<LF>>]),
   mtime |-> 0]

InitFns ==
  /\ pc = "call_convert"
  /\ word_list \in WordLists
  /\ cache = words_file(word_list)
  /\ cache0 = cache
  /\ now = 0
  /\ Blank

call_convert ==
  /\ pc = "call_convert"
  /\ standard_forms' =
       [i \in DOMAIN word_list |-> convert_to_standard_form(word_list[i])]
  /\ pc' = "call_find"
  /\ UNCHANGED <<now, cache, cache0, fetched, response, exc, word_list,
                 anagrams, min_count, filtered_anagrams, most_anagrams,
                 longest_anagrams, output>>

call_find ==
  /\ pc = "call_find"
  /\ anagrams' = find_anagrams(word_list)
  /\ pc' = "call_most"
  /\ UNCHANGED <<now, cache, cache0, fetched, response, exc, word_list,
                 standard_forms, min_count, filtered_anagrams, most_anagrams,
                 longest_anagrams, output>>

call_most ==
  /\ pc = "call_most"
  /\ most_anagrams' = get_most_anagram(anagrams)
  /\ pc' = "call_longest"
  /\ UNCHANGED <<now, cache, cache0, fetched, response, exc, word_list,
                 standard_forms, anagrams, min_count, filtered_anagrams,
                 longest_anagrams, output>>

call_longest ==
  /\ pc = "call_longest"
  /\ longest_anagrams' = get_longest_anagram(anagrams)
  /\ pc' = "call_filter"
  /\ UNCHANGED <<now, cache, cache0, fetched, response, exc, word_list,
                 standard_forms, anagrams, min_count, filtered_anagrams,
                 most_anagrams, output>>

call_filter ==
  /\ pc = "call_filter"
  /\ \E n \in 0..MaxMinCount :
       /\ min_count' = n
       /\ filtered_anagrams' = Returned(filter_anagrams_by_number(anagrams, n))
  /\ pc' = "called"
  /\ UNCHANGED <<now, cache, cache0, fetched, response, exc, word_list,
                 standard_forms, anagrams, most_anagrams, longest_anagrams,
                 output>>

NextFns ==
  \/ call_convert
  \/ call_find
  \/ call_most
  \/ call_longest
  \/ call_filter

SpecFns == InitFns /\ [][NextFns]_vars

\* ---- helpers of the properties ----

Count(c, w) == Cardinality({i \in DOMAIN w : w[i] = c})
Chars(w) == {w[i] : i \in DOMAIN w}
SameMultiset(a, b) == \A c \in Chars(a) \cup Chars(b) : Count(c, a) = Count(c, b)

Size(g) == Len(g.anagram_list)
Groups(d) == {d[i] : i \in DOMAIN d}
DistinctKeys(d) ==
  \A i, j \in DOMAIN d : i # j => d[i].standard_form # d[j].standard_form

RECURSIVE TotalSize(_)
TotalSize(d) == IF d = <<>> THEN 0 ELSE Size(Head(d)) + TotalSize(Tail(d))

\* the words of words whose letters, sorted, are key, in the order of words
WordsWithKey(words, key) ==
  LET Same(w) == SameMultiset(w, key)
  IN SelectSeq(words, Same)

IsGroupingOf(d, words) ==
  /\ DistinctKeys(d)
  /\ TotalSize(d) = Len(words)
  /\ \A n \in DOMAIN words :
       Cardinality({i \in DOMAIN d :
                      \E k \in DOMAIN d[i].anagram_list :
                        d[i].anagram_list[k] = words[n]}) = 1
  /\ \A i \in DOMAIN d :
       /\ d[i].anagram_list # <<>>
       /\ \A k \in DOMAIN d[i].anagram_list :
            convert_to_standard_form(d[i].anagram_list[k]) = d[i].standard_form
       /\ d[i].anagram_list = WordsWithKey(words, d[i].standard_form)

\* the states in which a call has just returned
ConvertReturned == pc = "call_find"
FindReturned == pc = "call_most"
MostReturned == pc = "call_longest"
LongestReturned == pc = "call_filter"
FilterReturned == pc = "called"

\* ---- the claims ----

\* C1: find_anagrams(L) partitions L: every word occurrence is in exactly one
\* group, the member counts add up to len(L), no group is empty, every member
\* has its group's key as standard form, and each group keeps the order of L.
C1_Partition == FindReturned => IsGroupingOf(anagrams, word_list)

C1_Witness ==
  /\ FindReturned
  /\ Len(anagrams) >= 2
  /\ \E i \in DOMAIN anagrams :
       /\ Size(anagrams[i]) >= 2
       /\ anagrams[i].anagram_list[1] # anagrams[i].anagram_list[2]

\* the run calls, or has called, get_words_from_uri
Refetch == pc = "fetch" \/ fetched

\* get_words_from_file has returned in this run
FileRead ==
  \/ pc \in {"find", "most", "longest", "print_most", "print_longest", "done"}
  \/ pc = "error" /\ exc = "ValueError"

\* C2 (as amended): a run refetches iff words.txt does not exist or
\* now >= T + 7 days; otherwise it fetches nothing, leaves the file as it is
\* and reads it.  At now = T + 7 days the run refetches.
C2_RefetchIffNotNewer ==
  pc # "check" =>
    /\ Refetch <=> (~cache0.exists \/ now >= cache0.mtime + MaxDaysOld)
    /\ ~Refetch =>
         /\ cache = cache0
         /\ response = NoResponse
         /\ FileRead => word_list = file_word_list(cache0.text)

C2_Witness ==
  /\ pc = "read"
  /\ cache0.exists
  /\ now = cache0.mtime + MaxDaysOld
  /\ fetched
  /\ cache # cache0

\* C2 (as stated): a run refetches iff words.txt does not exist or
\* now > T + 7 days; at now = T + 7 days it does not refetch.
C2_RefetchIffOlder ==
  pc # "check" =>
    (Refetch <=> (~cache0.exists \/ now > cache0.mtime + MaxDaysOld))

\* C3: when the fetch fails (no connection, timeout, or a non-success HTTP
\* status) the run aborts and words.txt holds what it held before the run.
C3_FailedFetchKeepsCache ==
  (fetched /\ (exc = "ConnectionError" \/ response.status \notin {0, 200})) =>
    (pc = "error" /\ cache = cache0)

\* C4 (as amended): get_most_anagram on zero groups and get_longest_anagram
\* on a grouping with no group of more than one member each fail instead of
\* returning an empty grouping; both fail with the same ValueError, which a
\* caller cannot tell apart.
C4_SameFailure ==
  LongestReturned =>
    /\ anagrams = <<>> => most_anagrams = Raised("ValueError")
    /\ (\A g \in Groups(anagrams) : Size(g) <= 1) =>
         longest_anagrams = Raised("ValueError")
    /\ anagrams = <<>> => most_anagrams.exc = longest_anagrams.exc

C4_Witness ==
  /\ LongestReturned
  /\ anagrams = <<>>
  /\ most_anagrams.exc = "ValueError"
  /\ longest_anagrams.exc = "ValueError"

\* C4 (as stated): the two failures are distinct conditions a caller can
\* tell apart.
C4_DistinctFailures ==
  (LongestReturned /\ most_anagrams.exc # "none" /\ longest_anagrams.exc # "none")
    => most_anagrams.exc # longest_anagrams.exc

\* C5: on a non-empty grouping get_most_anagram returns exactly the groups
\* whose size is the maximum over all groups, singletons included: the result
\* is non-empty, its groups have equal size, every other group is strictly
\* smaller, and when every word is unique the result is all the groups.
C5_MostPopulous ==
  (MostReturned /\ anagrams # <<>>) =>
    /\ most_anagrams.exc = "none"
    /\ most_anagrams.val # <<>>
    /\ DistinctKeys(most_anagrams.val)
    /\ Groups(most_anagrams.val) \subseteq Groups(anagrams)
    /\ \A g, h \in Groups(most_anagrams.val) : Size(g) = Size(h)
    /\ \A g \in Groups(anagrams) \ Groups(most_anagrams.val) :
         \A h \in Groups(most_anagrams.val) : Size(g) < Size(h)
    /\ (\A g \in Groups(anagrams) : Size(g) = 1) =>
         Groups(most_anagrams.val) = Groups(anagrams)

C5_Witness ==
  /\ MostReturned
  /\ most_anagrams.exc = "none"
  /\ \E g \in Groups(most_anagrams.val) : Size(g) = 2
  /\ \E g \in Groups(anagrams) \ Groups(most_anagrams.val) : Size(g) = 1

\* the groups with more than one member
Dups(d) == {g \in Groups(d) : Size(g) > 1}

C7_StandardForm ==
  ConvertReturned =>
    /\ DOMAIN standard_forms = DOMAIN word_list
    /\ \A i, j \in DOMAIN word_list :
         (standard_forms[i] = standard_forms[j])
           <=> SameMultiset(word_list[i], word_list[j])
    /\ \A i \in DOMAIN word_list :
         /\ SameMultiset(standard_forms[i], word_list[i])
         /\ Len(standard_forms[i]) = Len(word_list[i])
         /\ word_list[i] = <<>> => standard_forms[i] = <<>>

C7_Witness ==
  /\ ConvertReturned
  /\ \E i, j \in DOMAIN word_list :
       /\ word_list[i] # word_list[j]
       /\ standard_forms[i] = standard_forms[j]
  /\ \E i, j \in DOMAIN word_list :
       /\ lower(word_list[i]) = lower(word_list[j])
       /\ standard_forms[i] # standard_forms[j]

\* C8: a run of main that ends in an error has printed nothing: both
\* selections are made before the first line of the report.
C8_NoReportOnError ==
  /\ pc = "error" => output = <<>>
  /\ output # <<>> => (most_anagrams.exc = "none" /\ longest_anagrams.exc = "none")

C8_Witness ==
  /\ pc = "error"
  /\ exc = "ValueError"
  /\ most_anagrams.exc = "none"
  /\ most_anagrams.val # <<>>
  /\ longest_anagrams.exc = "ValueError"

\* C9: filter_anagrams_by_number(g, min_count) returns exactly the groups of
\* g with at least min_count members, unchanged, and an empty grouping when
\* there are none; with min_count = 1 it returns g; g itself is left as
\* find_anagrams built it.
C9_FilterByNumber ==
  FilterReturned =>
    /\ filtered_anagrams.exc = "none"
    /\ DistinctKeys(filtered_anagrams.val)
    /\ Groups(filtered_anagrams.val) =
         {g \in Groups(anagrams) : Size(g) >= min_count}
    /\ min_count = 1 => filtered_anagrams.val = anagrams
    /\ IsGroupingOf(anagrams, word_list)

C9_Witness ==
  /\ FilterReturned
  /\ min_count = 2
  /\ filtered_anagrams.val # <<>>
  /\ Len(filtered_anagrams.val) < Len(anagrams)

\* C10: after a refetch the words the run processes are exactly the pieces
\* of the response body between newlines, each stripped, in order and in
\* number: writing words.txt and reading it back loses nothing.
C10_RoundTrip ==
  (fetched /\ FileRead) =>
    word_list =
      [i \in DOMAIN split_lf(response.text) |-> strip(split_lf(response.text)[i])]

====
